---------------------------- MODULE Spec2Model ----------------------------
(***************************************************************************)
(* A model of lib/tmdb.ts: the adapter that fetches listings and search    *)
(* results from TMDB and converts them to the Douban "subject" shape.      *)
(*                                                                         *)
(* JavaScript values are records [t, s, n, a]: t is the type tag, s the    *)
(* characters of a string, n the value of a number, a the elements of an   *)
(* array.  A string is a sequence of characters (or of longer literal      *)
(* pieces of text), so that concatenation is \o and split() can be         *)
(* computed.  An evaluation that can throw yields [outcome, value] with    *)
(* outcome "return" or "throw".                                            *)
(***************************************************************************)
EXTENDS Naturals, Sequences, FiniteSets

VARIABLES
    apiKey,     \* TMDB_API_KEY, read once from the environment at module load
    pc,         \* pc[c]: where invocation c of an exported function stands
    op,         \* op[c]: "getMovieList" or "searchMovies"
    args,       \* args[c]: the arguments invocation c was called with
    requests,   \* requests[c]: the outbound requests invocation c has issued
    network,    \* responses in flight: [to |-> c, res |-> response]
    answered,   \* answered[c]: what the upstream answered to c's request
    data,       \* data[c]: the local `data`, the value fetchTMDB returned
    result,     \* result[c]: how the invocation completed
    item,       \* the upstream item handed to normalizeToDouban
    subject,    \* what normalizeToDouban made of it
    npc         \* "start" before normalizeToDouban has run, "done" after

vars == <<apiKey, pc, op, args, requests, network, answered, data, result,
          item, subject, npc>>

---------------------------------------------------------------------------
(* Bounds of the model. *)

NumCalls == 2       \* invocations that may be in flight together
MaxPage == 2        \* page numbers 1..MaxPage
MaxResults == 2     \* longest "results" array of a response

---------------------------------------------------------------------------
(* JavaScript values. *)

JS(t, s, n, a) == [t |-> t, s |-> s, n |-> n, a |-> a]
Undef == JS("undefined", <<>>, 0, <<>>)
Null == JS("null", <<>>, 0, <<>>)
Str(s) == JS("string", s, 0, <<>>)
Num(n) == JS("number", <<>>, n, <<>>)
Arr(a) == JS("array", <<>>, 0, a)
Obj == JS("object", <<>>, 0, <<>>)

\* ToBoolean: undefined, null, "" and 0 are falsy, everything else is truthy.
Truthy(v) ==
    CASE v.t = "undefined" -> FALSE
      [] v.t = "null" -> FALSE
      [] v.t = "string" -> v.s # <<>>
      [] v.t = "number" -> v.n # 0
      [] OTHER -> TRUE

\* a || b
Or(a, b) == IF Truthy(a) THEN a ELSE b

DigitChars == <<"0", "1", "2", "3", "4", "5", "6", "7", "8", "9">>

\* Number.prototype.toString() of a non-negative integer: its decimal digits.
RECURSIVE Digits(_)
Digits(n) ==
    IF n < 10 THEN <<DigitChars[n + 1]>>
    ELSE Digits(n \div 10) \o <<DigitChars[(n % 10) + 1]>>

\* v.toString(): throws a TypeError on undefined and null.
ToStringOf(v) ==
    CASE v.t \in {"undefined", "null"} -> [outcome |-> "throw", value |-> <<>>]
      [] v.t = "string" -> [outcome |-> "return", value |-> v.s]
      [] v.t = "number" -> [outcome |-> "return", value |-> Digits(v.n)]
      [] v.t = "array" -> [outcome |-> "return", value |-> <<>>]
      [] OTHER -> [outcome |-> "return", value |-> <<"[object Object]">>]

\* The text a template literal `${v}` interpolates.
Interpolate(v) ==
    CASE v.t = "string" -> v.s
      [] v.t = "number" -> Digits(v.n)
      [] v.t = "array" -> <<>>
      [] v.t = "object" -> <<"[object Object]">>
      [] OTHER -> <<v.t>>

\* The positions of sep in s.
Occurrences(s, sep) == {i \in 1..Len(s) : s[i] = sep}

\* String.prototype.split(sep) for a one-character separator.
RECURSIVE Split(_, _)
Split(s, sep) ==
    IF Occurrences(s, sep) = {} THEN <<s>>
    ELSE LET i == CHOOSE k \in Occurrences(s, sep) :
                      \A j \in Occurrences(s, sep) : k <= j
         IN  <<SubSeq(s, 1, i - 1)>> \o Split(SubSeq(s, i + 1, Len(s)), sep)

---------------------------------------------------------------------------
(* Module constants. *)

TMDB_BASE_URL == <<"https://api.themoviedb.org/3">>
IMAGE_BASE_URL == <<"https://image.tmdb.org/t/p/w500">>
PLACEHOLDER_URL == <<"https://via.placeholder.com/400x600?text=No+Cover">>

---------------------------------------------------------------------------
(* Upstream items and the normalizer. *)

ItemFields == {"id", "title", "name", "original_title", "original_name",
               "release_date", "first_air_date", "poster_path",
               "vote_average", "overview", "media_type"}

\* An object with the given fields; a field that is not given reads undefined.
ItemOf(given) ==
    [f \in ItemFields \cup {"t"} |->
        IF f = "t" THEN "object"
        ELSE IF f \in DOMAIN given THEN given[f] ELSE Undef]

\* A null element of a results array.
NullItem == [f \in ItemFields \cup {"t"} |-> IF f = "t" THEN "null" ELSE Undef]

\* The subject held in an outcome that threw.
NoSubject ==
    [id |-> Undef, title |-> Undef, original_title |-> Undef, year |-> Undef,
     images |-> [large |-> Undef, medium |-> Undef, small |-> Undef],
     rating |-> [average |-> Undef],
     genres |-> <<>>, casts |-> <<>>, directors |-> <<>>, summary |-> Undef]

Throw == [outcome |-> "throw", value |-> NoSubject]

\* const isTv = !!item.first_air_date
isTv(it) == Truthy(it.first_air_date)

\* DateOf with the two keys read in the other order.
DateOfSeriesFirst(it) == Or(Or(it.first_air_date, it.release_date), Str(<<>>))

\* const date = item.release_date || item.first_air_date || ''
DateOf(it) == Or(Or(it.release_date, it.first_air_date), Str(<<>>))

\* const year = date ? date.split('-')[0] : ''   (date.split is a function
\* only when date is a string)
YearOf(date) ==
    IF ~Truthy(date) THEN [outcome |-> "return", value |-> Str(<<>>)]
    ELSE IF date.t # "string" THEN [outcome |-> "throw", value |-> Undef]
    ELSE [outcome |-> "return", value |-> Str(Split(date.s, "-")[1])]

\* PosterOf without the placeholder for a missing poster_path.
PosterOfNoFallback(it) == Str(IMAGE_BASE_URL \o Interpolate(it.poster_path))

\* const poster = item.poster_path ? `${IMAGE_BASE_URL}${item.poster_path}` : placeholder
PosterOf(it) ==
    IF Truthy(it.poster_path)
    THEN Str(IMAGE_BASE_URL \o Interpolate(it.poster_path))
    ELSE Str(PLACEHOLDER_URL)

normalizeToDouban(it) ==
    IF it.t # "object" THEN Throw       \* item.first_air_date of null
    ELSE
    LET title == Or(Or(it.title, it.name), Str(<<>>))
        original_title == Or(Or(it.original_title, it.original_name), Str(<<>>))
        year == YearOf(DateOf(it))
        poster == PosterOf(it)
        id == ToStringOf(it.id)
    IN  IF year.outcome = "throw" THEN Throw
        ELSE IF id.outcome = "throw" THEN Throw
        ELSE [outcome |-> "return",
              value |-> [id |-> Str(id.value),
                         title |-> title,
                         original_title |-> original_title,
                         year |-> year.value,
                         images |-> [large |-> poster, medium |-> poster,
                                     small |-> poster],
                         rating |-> [average |-> Or(it.vote_average, Num(0))],
                         genres |-> <<>>, casts |-> <<>>, directors |-> <<>>,
                         summary |-> Or(it.overview, Str(<<>>))]]

---------------------------------------------------------------------------
(* The normalizer applied to one item. *)

Ids == {Undef, Null, Num(0), Num(550), Str(<<"t", "t", "1">>)}
Titles == {Undef, Str(<<>>), Str(<<"D", "u", "n", "e">>)}
Names == {Undef, Str(<<"L", "o", "k", "i">>)}
OriginalTitles == {Undef, Str(<<"D", "u", "n", "e", "!">>)}
OriginalNames == {Undef, Str(<<"L", "o", "k", "i", "!">>)}
ReleaseDates == {Undef, Str(<<>>),
                 Str(<<"2", "0", "2", "3", "-", "0", "5", "-", "0", "1">>),
                 Str(<<"1", "9", "9", "9">>), Num(2023)}
FirstAirDates == {Undef, Str(<<"2", "0", "1", "9", "-", "1", "1", "-", "1", "2">>),
                  Num(2019)}
PosterPaths == {Undef, Null, Str(<<>>), Str(<<"/", "p", ".", "j", "p", "g">>)}
VoteAverages == {Undef, Num(0), Num(8)}
Overviews == {Undef, Str(<<"p", "l", "o", "t">>)}

NormItems ==
    {NullItem} \cup
    {[t |-> "object", id |-> i, title |-> ti, name |-> na,
      original_title |-> ot, original_name |-> on, release_date |-> rd,
      first_air_date |-> fa, poster_path |-> pp, vote_average |-> va,
      overview |-> ov, media_type |-> Undef] :
        i \in Ids, ti \in Titles, na \in Names, ot \in OriginalTitles,
        on \in OriginalNames, rd \in ReleaseDates, fa \in FirstAirDates,
        pp \in PosterPaths, va \in VoteAverages, ov \in Overviews}

NotRun == [outcome |-> "none", value |-> NoSubject]

Normalize ==
    /\ npc = "start"
    /\ subject' = normalizeToDouban(item)
    /\ npc' = "done"
    /\ UNCHANGED <<item, apiKey, pc, op, args, requests, network, answered,
                   data, result>>

---------------------------------------------------------------------------
(* Invocations of the exported functions. *)

Calls == 1..NumCalls
\* The invocation of the specification that runs one call at a time.
Solo == CHOOSE c \in Calls : \A d \in Calls : c <= d

Types == {"movie", "tv", "anime"}
\* "remen" and "zuixin" stand for the tags U+70ED U+95E8 and U+6700 U+65B0.
Tags == {"hot", "remen", "latest", "zuixin", "top250", "high_score", "action"}
Pages == 1..MaxPage
Queries == {<<>>, <<"d", "u", "n", "e">>}

NoArgs == [type |-> "", tag |-> "", query |-> <<>>, page |-> 0]
NoBody == [t |-> "null", results |-> Undef]
NoResponse == [kind |-> "none", status |-> 0, json |-> "invalid", body |-> NoBody]
Pending == [outcome |-> "pending", value |-> <<>>]
Return(v) == [outcome |-> "return", value |-> v]
Thrown == [outcome |-> "throw", value |-> <<>>]

\* EndpointOf without line 95, the series endpoint of the "latest" tags.
EndpointOfNoTvOverride(type, tag) ==
    LET mediaType == IF type = "tv" THEN "tv" ELSE "movie"
    IN  IF tag = "hot" \/ tag = "remen"
        THEN <<"/", mediaType, "/popular">>
        ELSE IF tag = "latest" \/ tag = "zuixin"
        THEN <<"/", mediaType, "/now_playing">>
        ELSE IF tag = "top250" \/ tag = "high_score"
        THEN <<"/", mediaType, "/top_rated">>
        ELSE <<"/", mediaType, "/popular">>

\* getMovieList, lines 84-101: the endpoint for a type and a tag.
EndpointOf(type, tag) ==
    LET mediaType == IF type = "tv" THEN "tv" ELSE "movie"
    IN  IF tag = "hot" \/ tag = "remen"
        THEN <<"/", mediaType, "/popular">>
        ELSE IF tag = "latest" \/ tag = "zuixin"
        THEN IF mediaType = "tv" THEN <<"/", "tv", "/on_the_air">>
             ELSE <<"/", mediaType, "/now_playing">>
        ELSE IF tag = "top250" \/ tag = "high_score"
        THEN <<"/", mediaType, "/top_rated">>
        ELSE <<"/", mediaType, "/popular">>

\* fetchTMDB, lines 62-66: the URL and its query parameters, in order.
BuildRequest(endpoint, params) ==
    [url |-> TMDB_BASE_URL \o endpoint,
     query |-> <<<<"api_key", Or(apiKey, Str(<<>>)).s>>,
                 <<"language", <<"zh-CN">>>>>> \o params]

\* fetchTMDB, line 69: the request leaves.
IssueRequest(c, endpoint, params) ==
    requests' = [requests EXCEPT ![c] = Append(@, BuildRequest(endpoint, params))]

\* getMovieList up to its await; the limit parameter is never read.
CallGetMovieList(c, type, tag, page) ==
    /\ pc[c] = "idle"
    /\ op' = [op EXCEPT ![c] = "getMovieList"]
    /\ args' = [args EXCEPT ![c] = [type |-> type, tag |-> tag,
                                    query |-> <<>>, page |-> page]]
    /\ IssueRequest(c, EndpointOf(type, tag), <<<<"page", Digits(page)>>>>)
    /\ pc' = [pc EXCEPT ![c] = "fetching"]
    /\ UNCHANGED <<apiKey, network, answered, data, result, item, subject, npc>>

CallSearchMovies(c, query, page) ==
    /\ pc[c] = "idle"
    /\ op' = [op EXCEPT ![c] = "searchMovies"]
    /\ args' = [args EXCEPT ![c] = [type |-> "", tag |-> "",
                                    query |-> query, page |-> page]]
    /\ IssueRequest(c, <<"/search/multi">>,
                    <<<<"query", query>>, <<"page", Digits(page)>>>>)
    /\ pc' = [pc EXCEPT ![c] = "fetching"]
    /\ UNCHANGED <<apiKey, network, answered, data, result, item, subject, npc>>

\* The upstream (or the transport) answers the request of invocation c.
Upstream(c, res) ==
    /\ pc[c] = "fetching"
    /\ answered[c] = NoResponse
    /\ Len(requests[c]) > 0
    /\ answered' = [answered EXCEPT ![c] = res]
    /\ network' = network \cup {[to |-> c, res |-> res]}
    /\ UNCHANGED <<apiKey, pc, op, args, requests, data, result, item,
                   subject, npc>>

\* res.ok
Ok(res) == res.status >= 200 /\ res.status <= 299

\* fetchTMDB without the res.ok test of line 70.
fetchTMDBNoStatusCheck(res) ==
    IF res.kind = "netfail" THEN NoBody
    ELSE IF res.json = "invalid" THEN NoBody
    ELSE res.body

\* fetchTMDB, lines 68-78: the value returned for the outcome of fetch().
fetchTMDB(res) ==
    IF res.kind = "netfail" THEN NoBody          \* catch: return null
    ELSE IF ~Ok(res) THEN NoBody                 \* !res.ok: return null
    ELSE IF res.json = "invalid" THEN NoBody     \* res.json() rejects: catch
    ELSE res.body

\* A fetch() that resolves with any response in flight.
DeliverableAny(c) == network

\* The responses the fetch() of invocation c can resolve with: those that
\* answer its own request.
Deliverable(c) == {m \in network : m.to = c}

\* The request ended in a transport failure or in a non-success status.
Failed(res) == res.kind = "netfail" \/ (res.kind = "http" /\ ~Ok(res))

\* FetchTMDBResume with one retry of a failed request.
FetchTMDBResumeRetry(c) ==
    /\ pc[c] = "fetching"
    /\ \E m \in Deliverable(c) :
          /\ network' = network \ {m}
          /\ IF Failed(m.res) /\ Len(requests[c]) < 2
             THEN /\ requests' = [requests EXCEPT ![c] = Append(@, @[1])]
                  /\ answered' = [answered EXCEPT ![c] = NoResponse]
                  /\ UNCHANGED <<pc, data>>
             ELSE /\ data' = [data EXCEPT ![c] = fetchTMDB(m.res)]
                  /\ pc' = [pc EXCEPT ![c] = "fetched"]
                  /\ UNCHANGED <<requests, answered>>
    /\ UNCHANGED <<apiKey, op, args, result, item, subject, npc>>

FetchTMDBResume(c) ==
    /\ pc[c] = "fetching"
    /\ \E m \in Deliverable(c) :
          /\ data' = [data EXCEPT ![c] = fetchTMDB(m.res)]
          /\ network' = network \ {m}
    /\ pc' = [pc EXCEPT ![c] = "fetched"]
    /\ UNCHANGED <<apiKey, op, args, requests, answered, result, item,
                   subject, npc>>

\* data.results: a property read of an object; an array has no such property.
ResultsOf(d) == IF d.t = "object" THEN d.results ELSE Undef

\* array.map(normalizeToDouban): a throw of the callback ends the map.
RECURSIVE MapNormalize(_)
MapNormalize(items) ==
    IF items = <<>> THEN Return(<<>>)
    ELSE LET head == normalizeToDouban(Head(items))
             rest == MapNormalize(Tail(items))
         IN  IF head.outcome = "throw" \/ rest.outcome = "throw" THEN Thrown
             ELSE Return(<<head.value>> \o rest.value)

\* (i) => i.media_type === 'movie' || i.media_type === 'tv'
Keeps(i) ==
    IF i.t # "object" THEN [outcome |-> "throw", value |-> FALSE]
    ELSE [outcome |-> "return",
          value |-> i.media_type = Str(<<"movie">>) \/ i.media_type = Str(<<"tv">>)]

\* array.filter(...)
RECURSIVE Filter(_)
Filter(items) ==
    IF items = <<>> THEN Return(<<>>)
    ELSE LET head == Keeps(Head(items))
             rest == Filter(Tail(items))
         IN  IF head.outcome = "throw" \/ rest.outcome = "throw" THEN Thrown
             ELSE Return((IF head.value THEN <<Head(items)>> ELSE <<>>)
                         \o rest.value)

\* getMovieList, lines 105-108
getMovieListResult(d) ==
    IF d.t = "null" \/ ~Truthy(ResultsOf(d)) THEN Return(<<>>)
    ELSE IF ResultsOf(d).t # "array" THEN Thrown    \* results.map is not a function
    ELSE MapNormalize(ResultsOf(d).a)

\* searchMovies, lines 114-117
searchMoviesResult(d) ==
    IF d.t = "null" \/ ~Truthy(ResultsOf(d)) THEN Return(<<>>)
    ELSE IF ResultsOf(d).t # "array" THEN Thrown    \* results.filter is not a function
    ELSE LET filtered == Filter(ResultsOf(d).a)
         IN  IF filtered.outcome = "throw" THEN Thrown
             ELSE MapNormalize(filtered.value)

GetMovieListResume(c) ==
    /\ pc[c] = "fetched"
    /\ op[c] = "getMovieList"
    /\ result' = [result EXCEPT ![c] = getMovieListResult(data[c])]
    /\ pc' = [pc EXCEPT ![c] = "done"]
    /\ UNCHANGED <<apiKey, op, args, requests, network, answered, data, item,
                   subject, npc>>

SearchMoviesResume(c) ==
    /\ pc[c] = "fetched"
    /\ op[c] = "searchMovies"
    /\ result' = [result EXCEPT ![c] = searchMoviesResult(data[c])]
    /\ pc' = [pc EXCEPT ![c] = "done"]
    /\ UNCHANGED <<apiKey, op, args, requests, network, answered, data, item,
                   subject, npc>>

---------------------------------------------------------------------------
(* What the upstream can answer. *)

Movie == ItemOf([id |-> Num(1), title |-> Str(<<"D", "u", "n", "e">>),
                 release_date |-> Str(<<"2", "0", "2", "1", "-", "0", "9">>),
                 media_type |-> Str(<<"movie">>)])
Series == ItemOf([id |-> Num(2), name |-> Str(<<"L", "o", "k", "i">>),
                  first_air_date |-> Str(<<"2", "0", "2", "1", "-", "0", "6">>),
                  media_type |-> Str(<<"tv">>)])
Person == ItemOf([id |-> Num(3), name |-> Str(<<"Z", "e", "n">>),
                  media_type |-> Str(<<"person">>)])
Untyped == ItemOf([id |-> Num(4), title |-> Str(<<"H", "e", "a", "t">>)])
MovieNoId == ItemOf([title |-> Str(<<"X">>), media_type |-> Str(<<"movie">>)])

ResultItems == {Movie, Series, Person, Untyped, MovieNoId, NullItem}

SeqsUpTo(S, n) == UNION {[1..k -> S] : k \in 0..n}

\* "results" fields that are not arrays: missing, null, "", "x", 0, 7, {}.
OddResults == {Undef, Null, Str(<<>>), Str(<<"x">>), Num(0), Num(7), Obj}

Bodies(items, odd) ==
    {NoBody, [t |-> "array", results |-> Undef]}
    \cup {[t |-> "object", results |-> r] : r \in odd}
    \cup {[t |-> "object", results |-> Arr(a)] : a \in SeqsUpTo(items, MaxResults)}

\* The JSON body of an error response: an object that has no "results".
ErrorBody == [t |-> "object", results |-> Undef]

NetFail == [kind |-> "netfail", status |-> 0, json |-> "invalid", body |-> NoBody]
HttpError(s) == [kind |-> "http", status |-> s, json |-> "valid", body |-> ErrorBody]
HttpOk(b) == [kind |-> "http", status |-> 200, json |-> "valid", body |-> b]

Responses(items, odd) ==
    {NetFail}
    \cup {HttpError(s) : s \in {404, 500}}
    \cup {[kind |-> "http", status |-> 200, json |-> "invalid", body |-> NoBody]}
    \cup {[kind |-> "http", status |-> 200, json |-> "valid", body |-> b] :
            b \in Bodies(items, odd)}

---------------------------------------------------------------------------
(* Specifications. *)

InitCalls ==
    /\ apiKey \in {Undef, Str(<<"k", "e", "y">>)}
    /\ pc = [c \in Calls |-> "idle"]
    /\ op = [c \in Calls |-> ""]
    /\ args = [c \in Calls |-> NoArgs]
    /\ requests = [c \in Calls |-> <<>>]
    /\ network = {}
    /\ answered = [c \in Calls |-> NoResponse]
    /\ data = [c \in Calls |-> NoBody]
    /\ result = [c \in Calls |-> Pending]

\* One invocation, every input and every answer.
Init ==
    /\ InitCalls
    /\ item = NullItem
    /\ subject = NotRun
    /\ npc = "start"

Next ==
    \/ \E type \in Types, tag \in Tags, page \in Pages :
          CallGetMovieList(Solo, type, tag, page)
    \/ \E query \in Queries, page \in Pages :
          CallSearchMovies(Solo, query, page)
    \/ \E res \in Responses(ResultItems, OddResults) : Upstream(Solo, res)
    \/ FetchTMDBResume(Solo)
    \/ GetMovieListResume(Solo)
    \/ SearchMoviesResume(Solo)

Spec == Init /\ [][Next]_vars

\* Several invocations in flight together.
ConcTypes == {"tv"}
ConcTags == {"hot", "latest"}
ConcQueries == {<<"d", "u", "n", "e">>}
ConcResponses ==
    {NetFail, HttpError(500),
     HttpOk([t |-> "object", results |-> Arr(<<Movie, Person>>)]),
     HttpOk([t |-> "object", results |-> Obj])}

NextConcurrent ==
    \E c \in Calls :
        \/ \E type \in ConcTypes, tag \in ConcTags :
              CallGetMovieList(c, type, tag, 1)
        \/ \E query \in ConcQueries : CallSearchMovies(c, query, 1)
        \/ \E res \in ConcResponses : Upstream(c, res)
        \/ FetchTMDBResume(c)
        \/ GetMovieListResume(c)
        \/ SearchMoviesResume(c)

SpecConcurrent == Init /\ [][NextConcurrent]_vars

\* The normalizer alone, on every item.
InitNorm ==
    /\ InitCalls
    /\ item \in NormItems
    /\ subject = NotRun
    /\ npc = "start"

NextNorm == Normalize

SpecNorm == InitNorm /\ [][NextNorm]_vars

---------------------------------------------------------------------------
(* Vocabulary of the claims. *)

Missing(v) == v.t \in {"undefined", "null"}
IsText(v) == v.t = "string"
\* A field that is either missing or a string.
TextOrMissing(v) == Missing(v) \/ IsText(v)

\* An item object whose date fields, where present, are strings.
WellFormed(it) ==
    /\ it.t = "object"
    /\ TextOrMissing(it.release_date)
    /\ TextOrMissing(it.first_air_date)

\* The number a sequence of decimal digits denotes.
RECURSIVE DecimalValue(_)
DecimalValue(d) ==
    IF d = <<>> THEN 0
    ELSE 10 * DecimalValue(SubSeq(d, 1, Len(d) - 1))
         + ((CHOOSE k \in 1..10 : DigitChars[k] = d[Len(d)]) - 1)

\* A successful response: status 2xx and a body that parses.
Succeeded(res) == res.kind = "http" /\ Ok(res) /\ res.json = "valid"

\* What an invocation run alone returns for a response to its request.
Alone(o, res) ==
    IF o = "getMovieList" THEN getMovieListResult(fetchTMDB(res))
    ELSE searchMoviesResult(fetchTMDB(res))

---------------------------------------------------------------------------
(* C1-C5, C8, C9: the exported functions. *)

\* C1: getMovieList and searchMovies never fail outward: whatever the
\* arguments and whatever the outcome of the upstream request, a completed
\* call has returned a sequence and has not thrown.
C1_NeverFailsOutward ==
    \A c \in Calls : pc[c] = "done" => result[c].outcome = "return"

\* C2: a successful response whose body has no "results" field, or whose
\* "results" field is not an array, is treated as "no results": the call
\* returns the empty sequence.
C2_MalformedIsNoResults ==
    \A c \in Calls :
        (/\ pc[c] = "done"
         /\ Succeeded(answered[c])
         /\ (answered[c].body.t # "object"
             \/ answered[c].body.results.t # "array"))
        => result[c] = Return(<<>>)

\* C3: after a non-success status or a transport failure fetchTMDB returns
\* null, and whenever fetchTMDB returned null the call returns the empty
\* sequence, the very result of a successful response with zero results.
C3_FailureGivesEmpty ==
    \A c \in Calls :
        /\ (pc[c] \in {"fetched", "done"} /\ Failed(answered[c]))
              => data[c].t = "null"
        /\ (pc[c] = "done" /\ data[c].t = "null")
              => /\ result[c] = Return(<<>>)
                 /\ result[c] = Alone(op[c],
                        HttpOk([t |-> "object", results |-> Arr(<<>>)]))

\* C3 happens: a list call whose request failed in transport and a search
\* call that got a non-success status have both completed.
C3_Witness ==
    \E c, d \in Calls :
        /\ pc[c] = "done" /\ op[c] = "getMovieList" /\ answered[c] = NetFail
        /\ pc[d] = "done" /\ op[d] = "searchMovies"
        /\ answered[d] = HttpError(500)

\* C4: getMovieList requests the endpoint of the table: the kind is tv iff
\* type is 'tv' and movie otherwise; hot -> popular, latest -> now_playing
\* for movies and on_the_air for series, top250/high_score -> top_rated,
\* any other tag -> popular; the endpoint is of the requested kind.
C4_EndpointTable ==
    \A c \in Calls :
        (op[c] = "getMovieList" /\ pc[c] # "idle") =>
            LET kind == IF args[c].type = "tv" THEN "tv" ELSE "movie"
                tag == args[c].tag
                listing ==
                    CASE tag \in {"hot", "remen"} -> "/popular"
                      [] tag \in {"latest", "zuixin"} ->
                            IF kind = "tv" THEN "/on_the_air" ELSE "/now_playing"
                      [] tag \in {"top250", "high_score"} -> "/top_rated"
                      [] OTHER -> "/popular"
            IN  /\ Len(requests[c]) >= 1
                /\ \A k \in 1..Len(requests[c]) :
                      requests[c][k].url = TMDB_BASE_URL \o <<"/", kind, listing>>

\* C4 happens: the latest series were asked for and /tv/on_the_air requested.
C4_Witness ==
    \E c \in Calls :
        /\ op[c] = "getMovieList" /\ pc[c] = "done"
        /\ args[c].type = "tv" /\ args[c].tag = "zuixin"
        /\ requests[c][1].url = TMDB_BASE_URL \o <<"/", "tv", "/on_the_air">>

\* The items of a results array whose media_type is 'movie' or 'tv'.
MoviesAndSeries(a) ==
    SelectSeq(a, LAMBDA i : i.media_type \in {Str(<<"movie">>), Str(<<"tv">>)})

\* C5: for every successful search response (a results array of item
\* objects), searchMovies returns exactly the normalized forms of the items
\* whose media_type is 'movie' or 'tv', in their original order.
C5_SearchKeepsMoviesAndSeries ==
    \A c \in Calls :
        (/\ pc[c] = "done" /\ op[c] = "searchMovies"
         /\ Succeeded(answered[c])
         /\ answered[c].body.t = "object"
         /\ answered[c].body.results.t = "array"
         /\ \A k \in 1..Len(answered[c].body.results.a) :
               answered[c].body.results.a[k].t = "object")
        => LET kept == MoviesAndSeries(answered[c].body.results.a)
           IN  /\ result[c].outcome = "return"
               /\ Len(result[c].value) = Len(kept)
               /\ \A k \in 1..Len(kept) :
                     /\ normalizeToDouban(kept[k]).outcome = "return"
                     /\ result[c].value[k] = normalizeToDouban(kept[k]).value

\* C8: every invocation issues exactly one outbound request, on every
\* path: never a second one; after a non-success status or a transport
\* failure nothing holds the call back (its next step is always enabled),
\* and it completes with its result.
C8_OneRequestThenCompletes ==
    \A c \in Calls :
        /\ Len(requests[c]) <= 1
        /\ pc[c] # "idle" => Len(requests[c]) = 1
        /\ (pc[c] = "fetching" /\ Failed(answered[c]))
              => ENABLED FetchTMDBResume(c)
        /\ (pc[c] = "fetched" /\ Failed(answered[c]))
              => ENABLED (GetMovieListResume(c) \/ SearchMoviesResume(c))
        /\ (pc[c] = "done" /\ Failed(answered[c]))
              => result[c].outcome = "return"

\* C8 happens: a call completed after a failed request, with one request.
C8_Witness ==
    \E c \in Calls :
        /\ pc[c] = "done" /\ Failed(answered[c])
        /\ Len(requests[c]) = 1

\* C9: with several calls in flight, under every interleaving, a call's
\* request is determined by its own arguments and its result by the answer
\* to its own request: the result of running the call alone.
C9_CallsAreIndependent ==
    \A c \in Calls :
        /\ pc[c] # "idle" =>
              requests[c] =
                  <<BuildRequest(
                      IF op[c] = "getMovieList"
                      THEN EndpointOf(args[c].type, args[c].tag)
                      ELSE <<"/search/multi">>,
                      IF op[c] = "getMovieList"
                      THEN <<<<"page", Digits(args[c].page)>>>>
                      ELSE <<<<"query", args[c].query>>,
                             <<"page", Digits(args[c].page)>>>>)>>
        /\ pc[c] \in {"fetched", "done"} => data[c] = fetchTMDB(answered[c])
        /\ pc[c] = "done" => result[c] = Alone(op[c], answered[c])

\* C9 happens: two calls were in flight together, were answered
\* differently, and completed with different results.
C9_Witness ==
    \E c, d \in Calls :
        /\ c # d
        /\ pc[c] = "done" /\ pc[d] = "done"
        /\ answered[c] # answered[d]
        /\ result[c] # result[d]
        /\ result[c].outcome = "return" /\ result[c].value # <<>>

---------------------------------------------------------------------------
(* C6, C7, C10: the normalizer. *)

\* C6: for an item that carries an identifier, whatever other fields are
\* present, the record's id is the identifier as a string and each missing
\* field takes its default: title, original_title, year and summary "",
\* rating.average 0, the three images the same placeholder (the same
\* resolved poster URL for a poster_path), genres, casts, directors empty.
C6_DefaultsForMissingFields ==
    (npc = "done" /\ WellFormed(item) /\ ~Missing(item.id)) =>
        /\ subject.outcome = "return"
        /\ LET r == subject.value
           IN  /\ IsText(r.id)
               /\ IsText(item.id) => r.id = item.id
               /\ item.id.t = "number" => DecimalValue(r.id.s) = item.id.n
               /\ (Missing(item.title) /\ Missing(item.name))
                     => r.title = Str(<<>>)
               /\ (Missing(item.original_title) /\ Missing(item.original_name))
                     => r.original_title = Str(<<>>)
               /\ (Missing(item.release_date) /\ Missing(item.first_air_date))
                     => r.year = Str(<<>>)
               /\ Missing(item.overview) => r.summary = Str(<<>>)
               /\ Missing(item.vote_average) => r.rating.average = Num(0)
               /\ r.images.large = r.images.medium
               /\ r.images.large = r.images.small
               /\ Missing(item.poster_path)
                     => r.images.large = Str(PLACEHOLDER_URL)
               /\ (IsText(item.poster_path) /\ item.poster_path.s # <<>>)
                     => r.images.large = Str(IMAGE_BASE_URL \o item.poster_path.s)
               /\ r.genres = <<>> /\ r.casts = <<>> /\ r.directors = <<>>

\* C6 happens: an item with nothing but a numeric identifier was normalized.
C6_Witness ==
    /\ npc = "done"
    /\ item = ItemOf([id |-> Num(550)])
    /\ subject.outcome = "return"
    /\ subject.value.id = Str(<<"5", "5", "0">>)
    /\ subject.value.images.small = Str(PLACEHOLDER_URL)

\* C7: the normalizer has no error path: for every item object, with any
\* field missing or malformed (the identifier and non-string dates
\* included), it returns a record and never fails.
C7_NormalizerNeverFails ==
    (npc = "done" /\ item.t = "object") => subject.outcome = "return"

\* The text of s before its first "-" (all of s when it has none).
IsYearOf(y, s) ==
    /\ Len(y) <= Len(s)
    /\ y = SubSeq(s, 1, Len(y))
    /\ \A k \in 1..Len(y) : y[k] # "-"
    /\ Len(y) < Len(s) => s[Len(y) + 1] = "-"

\* C10: title, original title and date are read movie key first, the
\* series key only when the movie key is missing or empty; the year is the
\* chosen date up to its first '-' ("2023-05-01" gives "2023"), an empty or
\* missing date gives the empty year; an item without first_air_date is
\* handled as a movie, and one with both dates takes release_date's year.
C10_MovieKeyFirstAndYear ==
    (npc = "done" /\ WellFormed(item) /\ ~Missing(item.id)) =>
        LET r == subject.value
            chosen == IF Truthy(item.release_date) THEN item.release_date
                      ELSE IF Truthy(item.first_air_date) THEN item.first_air_date
                      ELSE Str(<<>>)
        IN  /\ subject.outcome = "return"
            /\ Truthy(item.title) => r.title = item.title
            /\ (~Truthy(item.title) /\ Truthy(item.name)) => r.title = item.name
            /\ Truthy(item.original_title) => r.original_title = item.original_title
            /\ (~Truthy(item.original_title) /\ Truthy(item.original_name))
                  => r.original_title = item.original_name
            /\ IsText(r.year) /\ IsYearOf(r.year.s, chosen.s)
            /\ item.release_date
                 = Str(<<"2", "0", "2", "3", "-", "0", "5", "-", "0", "1">>)
                  => r.year = Str(<<"2", "0", "2", "3">>)
            /\ chosen.s = <<>> => r.year = Str(<<>>)
            /\ Missing(item.first_air_date) =>
                  /\ ~isTv(item)
                  /\ IsYearOf(r.year.s, IF IsText(item.release_date)
                                        THEN item.release_date.s ELSE <<>>)

\* C10 happens: an item with both dates and both titles took the movie keys.
C10_Witness ==
    /\ npc = "done"
    /\ subject.outcome = "return"
    /\ item.release_date
         = Str(<<"2", "0", "2", "3", "-", "0", "5", "-", "0", "1">>)
    /\ Truthy(item.first_air_date)
    /\ Truthy(item.title) /\ Truthy(item.name)
    /\ subject.value.year = Str(<<"2", "0", "2", "3">>)
    /\ subject.value.title = item.title

===========================================================================
